---- MODULE Spec2Model ----
(***************************************************************************)
(* Model of the server-room monitoring firmware and server.                *)
(*                                                                         *)
(* Part 1: the sensor orchestrator, SensorManager, of                      *)
(* firmware/raspberrypi/src/sensors.py: four polling workers (motion,      *)
(* door, window, rfid), the status table behind one lock, the shared       *)
(* cooldown timestamp, the capture -> notify pipeline, and the API thread  *)
(* of api_server.py that reads the table and drives the window lock.       *)
(*                                                                         *)
(* Time is a global clock of ticks that only moves forward.  The sleeps    *)
(* and the cooldown of the code (1 s, 5 s, 60 s, 300 s) are scaled to      *)
(* ticks so that the polls stay shorter than the cooldown; a sleep is a    *)
(* lower bound on the time a worker stays away.                            *)
(***************************************************************************)
EXTENDS Integers, FiniteSets, Sequences, TLC

\* ------------------------------------------------------------ bounds
\* The clock stops at MaxTime; MaxPolls is the number of sensor polls
\* (loop iterations that read a sensor) all workers may start together.
MaxTime == 2
MaxPolls == 2
\* MaxStarts is the number of start() calls, MaxLifeCalls the number of
\* start() and stop() calls together, in a run of the lifecycle.
MaxStarts == 2
MaxLifeCalls == 3
\* MaxReplyLen is the longest anti-collision reply the bus delivers.
MaxReplyLen == 6
\* The events counted under one name.
MaxEvents == 2

\* ------------------------------------------------- program constants
\* EVENT_COOLDOWN (300 s), time.sleep(1), time.sleep(5), time.sleep(60), in ticks.
Cooldown == 2
SleepPoll == 1
SleepError == 1
SleepRfid == 1
\* The ceilings of the waits on a chip register, and the longest reply read
\* from the FIFO.
ToCardCeiling == 2000
CrcCeiling == 255
MAX_LEN == 16

\* api_server.py: the module-level flag is initialised False and never assigned again.
IS_WINDOW_GPIO_SETUP_set == TRUE
IS_WINDOW_GPIO_SETUP == FALSE

ContactWorkers == {"motion", "door", "window"}
Workers == ContactWorkers \cup {"rfid"}
Threads == Workers \cup {"api"}
Entries == Workers \cup {"camera", "door_lock", "window_lock"}

NoTime == -1
NoError == "none"
NoData == <<>>

VARIABLES
    now,              \* the clock, datetime.datetime.now()
    sensor_status,    \* SensorManager._sensor_status
    lock,             \* SensorManager._lock: its holder, or "none"
    last_event_time,  \* SensorManager._last_event_time
    pc,               \* where each thread is
    reading,          \* the value the worker's last poll read
    prev_reading,     \* history: the value of the poll before that
    cur_time,         \* current_time of the handler a worker is dispatching in
    wake,             \* the end of the worker's time.sleep
    upd,              \* the frame of the thread's _update_sensor_status call
    committed,        \* history: the table as the last release of the lock left it
    dispatch_log,     \* history: events that passed the cooldown check
    suppress_log,     \* history: events the cooldown check turned away
    fail_log,         \* history: dispatches whose capture raised
    notify_log,       \* history: dispatches that reached send_alert
    writers,          \* history: the threads that wrote each entry
    polls,            \* sensor polls started so far
    running,          \* SensorManager._running, the stop flag
    threads,          \* SensorManager._threads: the start() call that made the list, 0 if empty
    worker,           \* the state of every worker thread ever created
    main,             \* the thread that calls start() and stop()
    drv,              \* one pass of the RFID driver: the bus replies and what was made of them
    ntf,              \* one alert on its way: the captures, the alert built, the sends
    test,             \* one call of run_sensor_test: what the checks did and what it returned
    srv,              \* the server: its log table and the request it is handling
    pi,               \* the Raspberry Pi API server: platform, door lock and commands executed
    rl                \* the rate limiter: the clock and the sorted set of one client key

vars == <<now, sensor_status, lock, last_event_time, pc, reading, prev_reading,
          cur_time, wake, upd, committed, dispatch_log, suppress_log, fail_log,
          notify_log, writers, polls, running, threads, worker, main, drv, ntf,
          test, srv, pi, rl>>

\* The parts of the state the three specifications work on.
sensor_vars == <<now, sensor_status, lock, last_event_time, pc, reading, prev_reading,
                 cur_time, wake, upd, committed, dispatch_log, suppress_log, fail_log,
                 notify_log, writers, polls>>
life_vars == <<running, threads, worker, main>>
web_vars == <<srv, pi, rl>>

\* ------------------------------------------------------------ helpers
EntryType(e) ==
    CASE e \in Workers -> e
      [] e = "camera" -> "camera"
      [] OTHER -> "actuator"

\* _initialize_sensor_status
InitialStatus(e) ==
    [type |-> EntryType(e), is_active |-> FALSE, last_check |-> 0,
     error |-> NoError, data |-> NoData, event_count |-> 0,
     last_event_timestamp |-> NoTime]

NoCall ==
    [name |-> "none", is_active |-> FALSE, error |-> NoError, data |-> NoData,
     event |-> FALSE, now |-> NoTime, ret |-> "none"]

\* A call of _update_sensor_status: its arguments, the clock value it reads on
\* entry (before it asks for the lock), and where the caller continues.
Call(name, is_active, error, data, event, ret) ==
    [name |-> name, is_active |-> is_active, error |-> error, data |-> data,
     event |-> event, now |-> now, ret |-> ret]

DataKey(t) == IF t = "motion" THEN "detected" ELSE "open"

EventType(t) ==
    CASE t = "motion" -> "motion_detected"
      [] t = "door" -> "door_opened"
      [] t = "window" -> "window_opened"
      [] OTHER -> "unauthorized_access"

SleepOf(t) == IF t = "rfid" THEN SleepRfid ELSE SleepPoll

At(t, ct) == [ch |-> t, at |-> ct]

\* ------------------------------------------------ worker lifecycle
\* A worker thread is the channel it polls and the start() call that made it.
ThreadIds == Workers \X (1 .. MaxStarts)

\* threading.Thread.is_alive()
IsAlive(th) == worker[th] \in {"top", "iter"}

\* The threads of the list _threads.
ThreadList(g) == IF g = 0 THEN {} ELSE Workers \X {g}

\* The main thread between two calls, after n start() calls and no stop().
MainIdle(n) ==
    [pc |-> "idle", join |-> {}, then |-> "return", calls |-> n, starts |-> n]

\* SensorManager.__init__: the flag is set, the list of threads is empty.
LifeConstructed ==
    /\ running = TRUE
    /\ threads = 0
    /\ worker = [th \in ThreadIds |-> "unborn"]
    /\ main = MainIdle(0)

\* The lifecycle after __init__ and one start(): the first threads run.
LifeStarted ==
    /\ running = TRUE
    /\ threads = 1
    /\ worker = [th \in ThreadIds |-> IF th[2] = 1 THEN "top" ELSE "unborn"]
    /\ main = MainIdle(1)

\* SensorManager.is_healthy
IsHealthy == running /\ \A th \in ThreadList(threads) : IsAlive(th)

\* No pass of the RFID driver is going on.
NoDrv == [pc |-> "off"]

\* No alert is under way (the specifications that do not build alerts).
NoNtf == [pc |-> "off"]

\* No self-test is under way.
NoTest == [pc |-> "idle"]

\* No server, no Pi API server and no rate limiter.
NoSrv == [pc |-> "off"]
NoPi == [pc |-> "off"]
NoRl == [pc |-> "off"]
WebOff == srv = NoSrv /\ pi = NoPi /\ rl = NoRl

\* The table, the clock and the workers of the sensor model as __init__ leaves
\* them: the table is initialised, the cooldown timestamp is backdated by
\* 300 s (the default cooldown), the four workers are at the top of their loops.
SensorInit ==
    /\ now = 0
    /\ sensor_status = [e \in Entries |-> InitialStatus(e)]
    /\ lock = "none"
    /\ last_event_time = 0 - Cooldown
    /\ pc = [t \in Threads |-> IF t = "api" THEN "idle" ELSE "poll"]
    /\ reading = [t \in Workers |-> "false"]
    /\ prev_reading = [t \in Workers |-> "false"]
    /\ cur_time = [t \in Workers |-> NoTime]
    /\ wake = [t \in Workers |-> 0]
    /\ upd = [t \in Threads |-> NoCall]
    /\ committed = [e \in Entries |-> InitialStatus(e)]
    /\ dispatch_log = {}
    /\ suppress_log = {}
    /\ fail_log = {}
    /\ notify_log = {}
    /\ writers = [e \in Entries |-> {}]
    /\ polls = 0

\* SensorManager.__init__ and start().
Init ==
    /\ SensorInit
    /\ LifeStarted
    /\ drv = NoDrv
    /\ ntf = NoNtf
    /\ test = NoTest
    /\ WebOff

\* The clock advances.
Tick ==
    /\ now < MaxTime
    /\ now' = now + 1
    /\ UNCHANGED <<sensor_status, lock, last_event_time, pc, reading, prev_reading,
                   cur_time, wake, upd, committed, dispatch_log, suppress_log,
                   fail_log, notify_log, writers, polls>>
    /\ UNCHANGED <<life_vars, drv, ntf, test, web_vars>>

\* ------------------------------------------- _update_sensor_status
\* with self._lock: ... is_active and last_check are assigned first.
UpdLock(t) ==
    /\ pc[t] = "upd_lock"
    /\ lock = "none"
    /\ lock' = t
    /\ sensor_status' = [sensor_status EXCEPT
                            ![upd[t].name].is_active = upd[t].is_active,
                            ![upd[t].name].last_check = upd[t].now]
    /\ writers' = [writers EXCEPT ![upd[t].name] = @ \cup {t}]
    /\ pc' = [pc EXCEPT ![t] = "upd_write"]
    /\ UNCHANGED <<now, last_event_time, reading, prev_reading, cur_time, wake, upd,
                   committed, dispatch_log, suppress_log, fail_log, notify_log, polls>>
    /\ UNCHANGED <<life_vars, drv, ntf, test, web_vars>>

\* ... then error and data, and with event_detected the counter and its timestamp.
WriteRestStamped(s, u) ==
    [s EXCEPT !.error = u.error,
              !.data = u.data,
              !.event_count = IF u.event THEN @ + 1 ELSE @,
              !.last_event_timestamp = u.now]
WriteRest(s, u) ==
    [s EXCEPT !.error = u.error,
              !.data = u.data,
              !.event_count = IF u.event THEN @ + 1 ELSE @,
              !.last_event_timestamp = IF u.event THEN u.now ELSE @]

\* Where the thread continues when its update returns.  A worker whose reading
\* was false, or whose handler is over, starts its sleep.
Return(t, ret) ==
    CASE ret = "checked" /\ reading[t] = "true" ->
            /\ pc' = [pc EXCEPT ![t] = "checked"]
            /\ UNCHANGED <<wake, cur_time, notify_log>>
      [] ret = "checked" /\ reading[t] # "true" ->
            /\ pc' = [pc EXCEPT ![t] = "poll"]
            /\ wake' = [wake EXCEPT ![t] = now + SleepPoll]
            /\ UNCHANGED <<cur_time, notify_log>>
      [] ret = "handle" ->
            /\ pc' = [pc EXCEPT ![t] = "handle"]
            /\ UNCHANGED <<wake, cur_time, notify_log>>
      [] ret = "send_alert" ->
            /\ pc' = [pc EXCEPT ![t] = "send_alert"]
            /\ notify_log' = notify_log \cup {At(t, cur_time[t])}
            /\ UNCHANGED <<wake, cur_time>>
      [] ret = "sleep" ->
            /\ pc' = [pc EXCEPT ![t] = "poll"]
            /\ wake' = [wake EXCEPT ![t] = now + SleepOf(t)]
            /\ cur_time' = [cur_time EXCEPT ![t] = NoTime]
            /\ UNCHANGED notify_log
      [] ret = "sleep_error" ->
            /\ pc' = [pc EXCEPT ![t] = "poll"]
            /\ wake' = [wake EXCEPT ![t] = now + SleepError]
            /\ UNCHANGED <<cur_time, notify_log>>
      [] OTHER ->
            /\ pc' = [pc EXCEPT ![t] = "idle"]
            /\ UNCHANGED <<wake, cur_time, notify_log>>

\* The end of the with block releases the lock.
UpdWrite(t) ==
    /\ pc[t] = "upd_write"
    /\ sensor_status' = [sensor_status EXCEPT
                            ![upd[t].name] = WriteRest(@, upd[t])]
    /\ lock' = "none"
    /\ committed' = sensor_status'
    /\ upd' = [upd EXCEPT ![t] = NoCall]
    /\ Return(t, upd[t].ret)
    /\ UNCHANGED <<now, last_event_time, reading, prev_reading, dispatch_log,
                   suppress_log, fail_log, writers, polls>>
    /\ UNCHANGED <<life_vars, drv, ntf, test, web_vars>>

\* ---------------------------------------------------------- workers
\* _handle_motion / _handle_door / _handle_window: one loop iteration reads the
\* sensor (check_motion()/check_state() returns a boolean or raises) and
\* enters the first _update_sensor_status of the poll.
Poll(t) ==
    /\ pc[t] = "poll"
    /\ now >= wake[t]
    /\ polls < MaxPolls
    /\ polls' = polls + 1
    /\ \E r \in {"true", "false", "error"} :
        /\ reading' = [reading EXCEPT ![t] = r]
        /\ prev_reading' = [prev_reading EXCEPT ![t] = reading[t]]
        /\ upd' = [upd EXCEPT ![t] =
                      IF r = "error"
                      THEN Call(t, FALSE, "err", NoData, FALSE, "sleep_error")
                      ELSE Call(t, TRUE, NoError, <<DataKey(t), r>>, FALSE, "checked")]
    /\ pc' = [pc EXCEPT ![t] = "upd_lock"]
    /\ UNCHANGED <<now, sensor_status, lock, last_event_time, cur_time, wake,
                   committed, dispatch_log, suppress_log, fail_log, notify_log,
                   writers>>
    /\ UNCHANGED <<life_vars, drv, ntf, test, web_vars>>

\* What the worker does with a true reading once the first update has
\* returned: it counts the event with a second update, and then calls the
\* event handler.
CountEventGated(t) ==
    IF now - last_event_time < Cooldown
    THEN [pc |-> "handle", upd |-> NoCall]
    ELSE [pc |-> "upd_lock",
          upd |-> Call(t, TRUE, NoError, <<DataKey(t), "true">>, TRUE, "handle")]
CountEvent(t) ==
    [pc |-> "upd_lock",
     upd |-> Call(t, TRUE, NoError, <<DataKey(t), "true">>, TRUE, "handle")]

Checked(t) ==
    /\ pc[t] = "checked"
    /\ pc' = [pc EXCEPT ![t] = CountEvent(t).pc]
    /\ upd' = [upd EXCEPT ![t] = CountEvent(t).upd]
    /\ UNCHANGED <<now, sensor_status, lock, last_event_time, reading, prev_reading,
                   cur_time, wake, committed, dispatch_log, suppress_log, fail_log,
                   notify_log, writers, polls>>
    /\ UNCHANGED <<life_vars, drv, ntf, test, web_vars>>

\* Where _handle_rfid goes after it has written the card read to the table:
\* only a card that was not granted goes to _handle_unauthorized_access.
RfidReturnAlways(r) == "handle"
RfidReturn(r) == IF r = "denied" THEN "handle" ELSE "sleep"

\* _handle_rfid: read_card() never raises, a failed bus read comes back as
\* status ERROR; with a status other than OK nothing is written.
\* A card read is counted as an event, and a denied card goes to
\* _handle_unauthorized_access.
PollRfid ==
    /\ pc["rfid"] = "poll"
    /\ now >= wake["rfid"]
    /\ polls < MaxPolls
    /\ polls' = polls + 1
    /\ \E r \in {"granted", "denied", "no_card", "error"} :
        /\ reading' = [reading EXCEPT !["rfid"] = r]
        /\ prev_reading' = [prev_reading EXCEPT !["rfid"] = reading["rfid"]]
        /\ IF r \in {"no_card", "error"}
           THEN /\ wake' = [wake EXCEPT !["rfid"] = now + SleepRfid]
                /\ UNCHANGED <<pc, upd>>
           ELSE /\ upd' = [upd EXCEPT !["rfid"] =
                              Call("rfid", TRUE, NoError, <<"authorized", r>>, TRUE,
                                   RfidReturn(r))]
                /\ pc' = [pc EXCEPT !["rfid"] = "upd_lock"]
                /\ UNCHANGED wake
    /\ UNCHANGED <<now, sensor_status, lock, last_event_time, cur_time, committed,
                   dispatch_log, suppress_log, fail_log, notify_log, writers>>
    /\ UNCHANGED <<life_vars, drv, ntf, test, web_vars>>

\* _handle_intrusion_event / _handle_unauthorized_access, up to the call of
\* capture_image: the cooldown check on current_time.
CooldownActive(ct) == ct - last_event_time < Cooldown

HandleStep(t, newlock) ==
    /\ pc[t] = "handle"
    /\ lock' = newlock
    /\ IF CooldownActive(now)
       THEN /\ suppress_log' = suppress_log \cup {At(t, now)}
            /\ pc' = [pc EXCEPT ![t] = "poll"]
            /\ wake' = [wake EXCEPT ![t] = now + SleepOf(t)]
            /\ UNCHANGED <<cur_time, dispatch_log>>
       ELSE /\ dispatch_log' = dispatch_log \cup {At(t, now)}
            /\ cur_time' = [cur_time EXCEPT ![t] = now]
            /\ pc' = [pc EXCEPT ![t] = "capture_image"]
            /\ UNCHANGED <<wake, suppress_log>>
    /\ UNCHANGED <<now, sensor_status, last_event_time, reading, prev_reading, upd,
                   committed, fail_log, notify_log, writers, polls>>
    /\ UNCHANGED <<life_vars, drv, ntf, test, web_vars>>

HandleHoldingLock(t) == lock = "none" /\ HandleStep(t, t)
Handle(t) == HandleStep(t, lock)

\* The except branch of the handler: the camera entry gets the error.
CaptureFailed(t) ==
    /\ fail_log' = fail_log \cup {At(t, cur_time[t])}
    /\ upd' = [upd EXCEPT ![t] = Call("camera", FALSE, "err", NoData, FALSE, "sleep")]
    /\ pc' = [pc EXCEPT ![t] = "upd_lock"]

\* self._camera.capture_image() returns or raises.
CaptureImage(t) ==
    /\ pc[t] = "capture_image"
    /\ \/ /\ pc' = [pc EXCEPT ![t] = "record_video"]
          /\ UNCHANGED <<upd, fail_log>>
       \/ CaptureFailed(t)
    /\ UNCHANGED <<now, sensor_status, lock, last_event_time, reading, prev_reading,
                   cur_time, wake, committed, dispatch_log, suppress_log, notify_log,
                   writers, polls>>
    /\ UNCHANGED <<life_vars, drv, ntf, test, web_vars>>

\* self._camera.record_video() returns or raises; on return the camera entry
\* is updated with the capture.
RecordVideo(t) ==
    /\ pc[t] = "record_video"
    /\ \/ /\ upd' = [upd EXCEPT ![t] =
                        Call("camera", TRUE, NoError, <<"trigger_event", EventType(t)>>,
                             TRUE, "send_alert")]
          /\ pc' = [pc EXCEPT ![t] = "upd_lock"]
          /\ UNCHANGED fail_log
       \/ CaptureFailed(t)
    /\ UNCHANGED <<now, sensor_status, lock, last_event_time, reading, prev_reading,
                   cur_time, wake, committed, dispatch_log, suppress_log, notify_log,
                   writers, polls>>
    /\ UNCHANGED <<life_vars, drv, ntf, test, web_vars>>

\* send_alert returns (it catches the failures of its channels), and the
\* cooldown timestamp becomes current_time.
SendAlert(t) ==
    /\ pc[t] = "send_alert"
    /\ last_event_time' = cur_time[t]
    /\ cur_time' = [cur_time EXCEPT ![t] = NoTime]
    /\ pc' = [pc EXCEPT ![t] = "poll"]
    /\ wake' = [wake EXCEPT ![t] = now + SleepOf(t)]
    /\ UNCHANGED <<now, sensor_status, lock, reading, prev_reading, upd, committed,
                   dispatch_log, suppress_log, fail_log, notify_log, writers, polls>>
    /\ UNCHANGED <<life_vars, drv, ntf, test, web_vars>>

\* ------------------------------------------------------- API thread
\* get_sensor_status copies the table inside with self._lock.
CanSnapshotUnlocked == TRUE
CanSnapshot == lock = "none"

GetSensorStatus ==
    /\ pc["api"] = "idle"
    /\ CanSnapshot
    /\ lock' = "api"
    /\ pc' = [pc EXCEPT !["api"] = "snapshot"]
    /\ UNCHANGED <<now, sensor_status, last_event_time, reading, prev_reading,
                   cur_time, wake, upd, committed, dispatch_log, suppress_log,
                   fail_log, notify_log, writers, polls>>
    /\ UNCHANGED <<life_vars, drv, ntf, test, web_vars>>

\* The copy is returned and the lock released.
ReturnStatus ==
    /\ pc["api"] = "snapshot"
    /\ lock' = "none"
    /\ pc' = [pc EXCEPT !["api"] = "idle"]
    /\ UNCHANGED <<now, sensor_status, last_event_time, reading, prev_reading,
                   cur_time, wake, upd, committed, dispatch_log, suppress_log,
                   fail_log, notify_log, writers, polls>>
    /\ UNCHANGED <<life_vars, drv, ntf, test, web_vars>>

\* lock_window / unlock_window on the Raspberry Pi: without the GPIO flag the
\* command returns an error before it touches the table.
ControlWindow(locked) ==
    /\ pc["api"] = "idle"
    /\ IF IS_WINDOW_GPIO_SETUP
       THEN /\ upd' = [upd EXCEPT !["api"] =
                          Call("window", TRUE, NoError, <<"locked", locked>>, FALSE,
                               "control_done")]
            /\ pc' = [pc EXCEPT !["api"] = "upd_lock"]
       ELSE UNCHANGED <<upd, pc>>
    /\ UNCHANGED <<now, sensor_status, lock, last_event_time, reading, prev_reading,
                   cur_time, wake, committed, dispatch_log, suppress_log, fail_log,
                   notify_log, writers, polls>>
    /\ UNCHANGED <<life_vars, drv, ntf, test, web_vars>>

Next ==
    \/ Tick
    \/ \E t \in Threads : UpdLock(t) \/ UpdWrite(t)
    \/ \E t \in ContactWorkers : Poll(t) \/ Checked(t)
    \/ PollRfid
    \/ \E t \in Workers : Handle(t) \/ CaptureImage(t) \/ RecordVideo(t) \/ SendAlert(t)
    \/ GetSensorStatus
    \/ ReturnStatus
    \/ \E b \in {"true", "false"} : ControlWindow(b)

Spec == Init /\ [][Next]_vars

\* ------------------------------------------------ start() and stop()
\* start(): with threads in the list it first calls stop().
CallStart ==
    /\ main.pc = "idle"
    /\ main.calls < MaxLifeCalls
    /\ main.starts < MaxStarts
    /\ main' = [main EXCEPT !.calls = @ + 1,
                            !.then = "start",
                            !.pc = IF threads # 0 THEN "stop" ELSE "start_threads"]
    /\ UNCHANGED <<running, threads, worker, sensor_vars, drv, ntf, test, web_vars>>

CallStop ==
    /\ main.pc = "idle"
    /\ main.calls < MaxLifeCalls
    /\ main' = [main EXCEPT !.calls = @ + 1, !.then = "return", !.pc = "stop"]
    /\ UNCHANGED <<running, threads, worker, sensor_vars, drv, ntf, test, web_vars>>

\* Where the main thread goes when stop() returns.
AfterStop == IF main.then = "start" THEN "start_threads" ELSE "idle"

\* stop(): returns at once when the flag is already clear; otherwise clears the
\* flag, copies the list of threads and empties it.
StopFlag ==
    /\ main.pc = "stop"
    /\ IF ~running
       THEN /\ main' = [main EXCEPT !.pc = AfterStop]
            /\ UNCHANGED <<running, threads>>
       ELSE /\ running' = FALSE
            /\ threads' = 0
            /\ main' = [main EXCEPT !.pc = "joining", !.join = ThreadList(threads)]
    /\ UNCHANGED <<worker, sensor_vars, drv, ntf, test, web_vars>>

\* thread.join(timeout=5.0) returns when the thread has ended or when the
\* timeout has passed, whichever comes first; stop() goes on in both cases.
Join(th) ==
    /\ main.pc = "joining"
    /\ th \in main.join
    /\ main' = [main EXCEPT !.join = @ \ {th}]
    /\ UNCHANGED <<running, threads, worker, sensor_vars, drv, ntf, test, web_vars>>

JoinDone ==
    /\ main.pc = "joining"
    /\ main.join = {}
    /\ main' = [main EXCEPT !.pc = AfterStop]
    /\ UNCHANGED <<running, threads, worker, sensor_vars, drv, ntf, test, web_vars>>

\* The rest of start(): the flag is set, four new threads are made and started.
StartThreads ==
    /\ main.pc = "start_threads"
    /\ running' = TRUE
    /\ threads' = main.starts + 1
    /\ worker' = [th \in ThreadIds |->
                     IF th[2] = main.starts + 1 THEN "top" ELSE worker[th]]
    /\ main' = [main EXCEPT !.pc = "idle", !.starts = @ + 1]
    /\ UNCHANGED <<sensor_vars, drv, ntf, test, web_vars>>

\* while self._running: a worker reads the flag at the top of each iteration.
WorkerTop(th) ==
    /\ worker[th] = "top"
    /\ worker' = [worker EXCEPT ![th] = IF running THEN "iter" ELSE "dead"]
    /\ UNCHANGED <<running, threads, main, sensor_vars, drv, ntf, test, web_vars>>

\* The iteration, with its sleep, comes to its end.
WorkerIter(th) ==
    /\ worker[th] = "iter"
    /\ worker' = [worker EXCEPT ![th] = "top"]
    /\ UNCHANGED <<running, threads, main, sensor_vars, drv, ntf, test, web_vars>>

LifeInit ==
    /\ SensorInit
    /\ LifeConstructed
    /\ drv = NoDrv
    /\ ntf = NoNtf
    /\ test = NoTest
    /\ WebOff

LifeNext ==
    \/ CallStart
    \/ CallStop
    \/ StopFlag
    \/ \E th \in ThreadIds : Join(th)
    \/ JoinDone
    \/ StartThreads
    \/ \E th \in ThreadIds : WorkerTop(th) \/ WorkerIter(th)

\* Every thread that can take a step takes it in the end; nothing obliges the
\* caller to call start() or stop().
LifeFairness ==
    /\ WF_vars(StopFlag)
    /\ WF_vars(JoinDone)
    /\ WF_vars(StartThreads)
    /\ \A th \in ThreadIds :
          WF_vars(Join(th)) /\ WF_vars(WorkerTop(th)) /\ WF_vars(WorkerIter(th))

SpecLife == LifeInit /\ [][LifeNext]_vars /\ LifeFairness

\* ------------------------------------------------------ RFID driver
\* rfid.py AUTHORIZED_CARDS: the role of every authorized UID.
AUTHORIZED_CARDS ==
    (<<5, 74, 28, 185, 234>> :> "admin") @@
    (<<83, 164, 247, 164, 164>> :> "IT staff") @@
    (<<20, 38, 121, 207, 132>> :> "maintenance")

NoRole == "None"

\* The bytes the replies of the bus are made of, next to the listed cards.
SmallBytes == {0, 1, 255}

RECURSIVE SeqsOfLen(_)
SeqsOfLen(n) ==
    IF n = 0 THEN {<<>>}
    ELSE {Append(q, b) : q \in SeqsOfLen(n - 1), b \in SmallBytes}

\* The backData an anti-collision exchange can deliver: the authorized cards,
\* the authorized admin card with a flipped check byte, and every string of
\* SmallBytes up to MaxReplyLen.
Replies ==
    DOMAIN AUTHORIZED_CARDS \cup {<<5, 74, 28, 185, 235>>}
        \cup UNION {SeqsOfLen(n) : n \in 0 .. MaxReplyLen}

\* a ^ b on n-bit numbers.
RECURSIVE XorBits(_, _, _)
XorBits(a, b, n) ==
    IF n = 0 THEN 0
    ELSE (((a % 2) + (b % 2)) % 2) + 2 * XorBits(a \div 2, b \div 2, n - 1)

Xor(a, b) == XorBits(a, b, 8)

\* serNumCheck of MFRC522_Anticoll: the XOR of the first four bytes.
SerNumCheck(backData) ==
    Xor(Xor(Xor(Xor(0, backData[1]), backData[2]), backData[3]), backData[4])

\* MFRC522_Anticoll on the status and backData of its exchange: the check byte
\* is looked at only when the reply has five bytes.
MFRC522_AnticollUnchecked(status, backData) ==
    [status |-> status, uid |-> backData]
MFRC522_Anticoll(status, backData) ==
    [status |-> IF status = "OK" /\ Len(backData) = 5
                   /\ SerNumCheck(backData) # backData[5]
                THEN "ERROR" ELSE status,
     uid |-> backData]

\* MFRC522_Request on the status and backBits of its exchange.
MFRC522_RequestAnyLength(status, backBits) ==
    IF status # "OK" THEN "ERROR" ELSE status
MFRC522_Request(status, backBits) ==
    IF status # "OK" \/ backBits # 16 THEN "ERROR" ELSE status

\* The numbers of bits the reply to a request can have.
RequestBits == {0, 8, 16}

\* RFIDReader.read_card on what MFRC522_Request returns (req) and on the
\* exchange of MFRC522_Anticoll (ex, backData); "raise" is an exception of
\* the bus.
read_card(req, ex, backData) ==
    CASE req = "raise" -> [status |-> "ERROR", uid |-> <<>>]
      [] req # "OK" -> [status |-> req, uid |-> <<>>]
      [] ex = "raise" -> [status |-> "ERROR", uid |-> <<>>]
      [] OTHER ->
            LET a == MFRC522_Anticoll(ex, backData)
            IN  IF a.status = "OK" THEN a ELSE [status |-> a.status, uid |-> <<>>]

\* RFIDReader.authenticate_card
authenticate_cardAnyLength(uid) ==
    IF uid \in DOMAIN AUTHORIZED_CARDS
    THEN [status |-> "OK", role |-> AUTHORIZED_CARDS[uid]]
    ELSE [status |-> "OK", role |-> NoRole]
authenticate_card(uid) ==
    IF Len(uid) # 5 THEN [status |-> "ERROR", role |-> NoRole]
    ELSE IF uid \in DOMAIN AUTHORIZED_CARDS
         THEN [status |-> "OK", role |-> AUTHORIZED_CARDS[uid]]
         ELSE [status |-> "ERROR", role |-> NoRole]

\* notifications.py create_rfid_alert: the severity of the alert.
create_rfid_alert(event_type) ==
    [event_type |-> event_type,
     severity |-> IF event_type = "unauthorized_access" THEN "critical" ELSE "medium"]

DrvIdle == [pc |-> "idle"]

\* One iteration of _handle_rfid starts: read_card() talks to the bus.
DrvPoll ==
    /\ drv.pc = "idle"
    /\ \E rex \in {"OK", "NO_TAG", "ERROR", "raise"} :
       \E bits \in RequestBits :
       \E ex \in {"OK", "NO_TAG", "ERROR", "raise"} :
       \E back \in Replies :
          LET req == IF rex = "raise" THEN "raise" ELSE MFRC522_Request(rex, bits)
          IN
          drv' = [pc |-> "read_done", rex |-> rex, bits |-> bits,
                  req |-> req, ex |-> ex, back |-> back,
                  anticoll |-> IF req = "OK" /\ ex # "raise"
                               THEN MFRC522_Anticoll(ex, back).status
                               ELSE "none",
                  status |-> read_card(req, ex, back).status,
                  uid |-> read_card(req, ex, back).uid,
                  auth |-> "none", role |-> NoRole, alert |-> "none"]
    /\ UNCHANGED <<sensor_vars, life_vars, ntf, test, web_vars>>

\* if status == RFIDStatus.OK: authenticate_card(uid); otherwise the sleep.
DrvAuthenticate ==
    /\ drv.pc = "read_done"
    /\ IF drv.status = "OK"
       THEN drv' = [drv EXCEPT !.pc = "authenticated",
                               !.auth = authenticate_card(drv.uid).status,
                               !.role = authenticate_card(drv.uid).role]
       ELSE drv' = [drv EXCEPT !.pc = "sleep"]
    /\ UNCHANGED <<sensor_vars, life_vars, ntf, test, web_vars>>

\* The rfid entry is written; a card that was not granted goes to
\* _handle_unauthorized_access.
DrvUpdate ==
    /\ drv.pc = "authenticated"
    /\ drv' = [drv EXCEPT !.pc = IF drv.auth = "OK" THEN "sleep" ELSE "unauthorized"]
    /\ UNCHANGED <<sensor_vars, life_vars, ntf, test, web_vars>>

\* _handle_unauthorized_access makes its alert.
DrvUnauthorized ==
    /\ drv.pc = "unauthorized"
    /\ drv' = [drv EXCEPT !.pc = "sleep",
                          !.alert = create_rfid_alert("unauthorized_access").severity]
    /\ UNCHANGED <<sensor_vars, life_vars, ntf, test, web_vars>>

\* What one exchange of a block write can return: the status of
\* MFRC522_ToCard ("raise" is an exception of the bus), the number of bits of
\* the reply and its first byte.
WriteExchanges ==
    [status : {"OK", "NO_TAG", "ERROR", "raise"}, backLen : {0, 4, 8},
     byte0 : {0, 10, 26, 5}]

\* What the exchange of a block read can return: the status and the number
\* of bytes of the reply.
ReadExchanges == [status : {"OK", "NO_TAG", "ERROR", "raise"}, n : {0, 15, 16}]

\* status == OK and backLen == 4 and (backData[0] & 0x0F) == 0x0A
Acked(x) == x.status = "OK" /\ x.backLen = 4 /\ x.byte0 % 16 = 10

\* MFRC522_Write on the exchanges of its two phases: it returns nothing, the
\* outcome is only logged; the second phase runs when the first was
\* acknowledged.
MFRC522_Write(x1, x2) ==
    [raised |-> x1.status = "raise" \/ (Acked(x1) /\ x2.status = "raise"),
     log |-> IF Acked(x1) /\ Acked(x2) THEN "Data written"
             ELSE "Error while writing"]

\* MFRC522_Read on its exchange: it returns nothing as well.
MFRC522_Read(x) ==
    [raised |-> x.status = "raise",
     log |-> IF x.status = "OK" /\ x.n = 16 THEN "Sector"
             ELSE "Error while reading!"]

\* RFIDReader.write_card_data and read_card_data: True unless the driver
\* raised.
write_card_data(x1, x2) == ~MFRC522_Write(x1, x2).raised

read_card_data(x) == ~MFRC522_Read(x).raised

\* A caller writes a block of the card.
DrvWriteCard ==
    /\ drv.pc = "idle"
    /\ \E x1 \in WriteExchanges : \E x2 \in WriteExchanges :
          drv' = [pc |-> "data_done", op |-> "write", x1 |-> x1, x2 |-> x2,
                  log |-> MFRC522_Write(x1, x2).log,
                  result |-> write_card_data(x1, x2)]
    /\ UNCHANGED <<sensor_vars, life_vars, ntf, test, web_vars>>

\* A caller reads a block of the card.
DrvReadData ==
    /\ drv.pc = "idle"
    /\ \E x \in ReadExchanges :
          drv' = [pc |-> "data_done", op |-> "read", x |-> x,
                  log |-> MFRC522_Read(x).log,
                  result |-> read_card_data(x)]
    /\ UNCHANGED <<sensor_vars, life_vars, ntf, test, web_vars>>

\* The caller has its boolean.
DrvDataReturn ==
    /\ drv.pc = "data_done"
    /\ drv' = DrvIdle
    /\ UNCHANGED <<sensor_vars, life_vars, ntf, test, web_vars>>

\* a & b on n-bit numbers.
RECURSIVE AndBits(_, _, _)
AndBits(a, b, n) ==
    IF n = 0 THEN 0
    ELSE ((a % 2) * (b % 2)) + 2 * AndBits(a \div 2, b \div 2, n - 1)

And(a, b) == AndBits(a, b, 8)

\* The commands MFRC522_ToCard is called with, and its irqEn and waitIRq.
Commands == {"PCD_AUTHENT", "PCD_TRANSCEIVE"}

IrqEn(command) == IF command = "PCD_AUTHENT" THEN 18 ELSE 119

WaitIRq(command) == IF command = "PCD_AUTHENT" THEN 16 ELSE 48

\* The values a read of CommIrqReg, DivIrqReg, ErrorReg, FIFOLevelReg and
\* ControlReg can give.
IrqValues == {0, 1, 16, 32, 49}

DivIrqValues == {0, 4, 16}

ErrorValues == {0, 1, 4}

FifoLevels == {0, 2, 17}

ControlValues == {0, 7}

\* i = 2000: MFRC522_ToCard has written the command and starts to wait.
DrvToCard ==
    /\ drv.pc = "idle"
    /\ \E command \in Commands :
          drv' = [pc |-> "tocard_wait", command |-> command, i |-> ToCardCeiling,
                  reads |-> 0, n |-> 0, errorReg |-> 0, status |-> "ERROR",
                  backLen |-> 0, backBytes |-> 0]
    /\ UNCHANGED <<sensor_vars, life_vars, ntf, test, web_vars>>

\* One pass of the while loop: CommIrqReg is read, i is decremented, and the
\* loop is left on the timer bit, on a waited bit, or with i at 0.
DrvToCardRead ==
    /\ drv.pc = "tocard_wait"
    /\ \E n \in IrqValues :
          drv' = [drv EXCEPT
                     !.n = n,
                     !.i = drv.i - 1,
                     !.reads = drv.reads + 1,
                     !.pc = IF And(n, 1) # 0 \/ And(n, WaitIRq(drv.command)) # 0
                               \/ drv.i - 1 = 0
                            THEN "tocard_check" ELSE "tocard_wait"]
    /\ UNCHANGED <<sensor_vars, life_vars, ntf, test, web_vars>>

\* After the loop: with i left, ErrorReg decides the status and a
\* transceive reads the reply from the FIFO; with i at 0 the status stays
\* ERROR.  errorReg is what ErrorReg holds at that point, read or not.
DrvToCardCheck ==
    /\ drv.pc = "tocard_check"
    /\ \E e \in ErrorValues : \E level \in FifoLevels : \E control \in ControlValues :
          LET lastBits == And(control, 7)
              ok == drv.i # 0 /\ And(e, 27) = 0
              reply == ok /\ drv.command = "PCD_TRANSCEIVE"
          IN  drv' = [drv EXCEPT
                         !.pc = "tocard_done",
                         !.errorReg = e,
                         !.status = IF ~ok THEN "ERROR"
                                    ELSE IF And(And(drv.n, IrqEn(drv.command)), 1) # 0
                                         THEN "NO_TAG" ELSE "OK",
                         !.backLen = IF ~reply THEN 0
                                     ELSE IF lastBits # 0
                                          THEN (level - 1) * 8 + lastBits
                                          ELSE level * 8,
                         !.backBytes = IF ~reply THEN 0
                                       ELSE IF level < MAX_LEN THEN level ELSE MAX_LEN]
    /\ UNCHANGED <<sensor_vars, life_vars, ntf, test, web_vars>>

\* return status, backData, backLen, to a caller of a transceive.
DrvToCardReturn ==
    /\ drv.pc = "tocard_done"
    /\ drv.command = "PCD_TRANSCEIVE"
    /\ drv' = DrvIdle
    /\ UNCHANGED <<sensor_vars, life_vars, ntf, test, web_vars>>

\* The values a read of Status2Reg can give.
Status2Values == {0, 1, 8, 9}

\* MFRC522_Auth on the status of its exchange and on Status2Reg: the crypto
\* bit is looked at for the log only.
MFRC522_Auth(status, status2) == status

\* MFRC522_Auth gets the status of its PCD_AUTHENT exchange, reads Status2Reg
\* and returns.
DrvAuth ==
    /\ drv.pc = "tocard_done"
    /\ drv.command = "PCD_AUTHENT"
    /\ \E status2 \in Status2Values :
          drv' = [pc |-> "auth_done", exchange |-> drv.status, status2 |-> status2,
                  log |-> IF drv.status # "OK" \/ And(status2, 8) = 0
                          THEN "AUTH ERROR!!" ELSE "none",
                  ret |-> MFRC522_Auth(drv.status, status2)]
    /\ UNCHANGED <<sensor_vars, life_vars, ntf, test, web_vars>>

DrvAuthReturn ==
    /\ drv.pc = "auth_done"
    /\ drv' = DrvIdle
    /\ UNCHANGED <<sensor_vars, life_vars, ntf, test, web_vars>>

\* CalculateCRC has started the coprocessor and starts to wait.
DrvCalculateCRC ==
    /\ drv.pc = "idle"
    /\ drv' = [pc |-> "crc_wait", reads |-> 0, n |-> 0, ret |-> "none"]
    /\ UNCHANGED <<sensor_vars, life_vars, ntf, test, web_vars>>

\* One pass of for _ in range(0xFF): DivIrqReg is read and the loop is left
\* on bit 0x04 or after the last pass; either way the two result registers
\* are what the caller gets.
DrvCrcRead ==
    /\ drv.pc = "crc_wait"
    /\ \E n \in DivIrqValues :
          drv' = [drv EXCEPT
                     !.n = n,
                     !.reads = drv.reads + 1,
                     !.pc = IF And(n, 4) # 0 \/ drv.reads + 1 = CrcCeiling
                            THEN "crc_done" ELSE "crc_wait",
                     !.ret = IF And(n, 4) # 0 \/ drv.reads + 1 = CrcCeiling
                             THEN "CRCResultReg" ELSE "none"]
    /\ UNCHANGED <<sensor_vars, life_vars, ntf, test, web_vars>>

DrvCrcReturn ==
    /\ drv.pc = "crc_done"
    /\ drv' = DrvIdle
    /\ UNCHANGED <<sensor_vars, life_vars, ntf, test, web_vars>>

DrvSleep ==
    /\ drv.pc = "sleep"
    /\ drv' = DrvIdle
    /\ UNCHANGED <<sensor_vars, life_vars, ntf, test, web_vars>>

RfidInit ==
    /\ SensorInit
    /\ LifeStarted
    /\ drv = DrvIdle
    /\ ntf = NoNtf
    /\ test = NoTest
    /\ WebOff

RfidNext ==
    \/ DrvPoll
    \/ DrvAuthenticate
    \/ DrvUpdate
    \/ DrvUnauthorized
    \/ DrvSleep
    \/ DrvWriteCard
    \/ DrvReadData
    \/ DrvDataReturn
    \/ DrvToCard
    \/ DrvToCardRead
    \/ DrvToCardCheck
    \/ DrvToCardReturn
    \/ DrvAuth
    \/ DrvAuthReturn
    \/ DrvCalculateCRC
    \/ DrvCrcRead
    \/ DrvCrcReturn

SpecRfid == RfidInit /\ [][RfidNext]_vars

\* ------------------------------------------------ alerts and their sends
IntrusionEvents == {"motion_detected", "door_opened", "window_opened"}

\* The event types alerts are built for.
AlertEvents ==
    IntrusionEvents \cup {"unauthorized_access", "authorized_access", "health_check"}

\* What _upload_to_cloud returns for the image and for the video: the URL of
\* the upload, or None.
NoUrl == "None"

ImageUrls == {"image_url", NoUrl}

VideoUrls == {"video_url", NoUrl}

Channels == {"sms", "email", "fcm"}

Sends == {"server"} \cup Channels

\* What one send can do: succeed, fail, or fail with an exception.
SendOutcomes == {"ok", "fail", "raise"}

\* notifications.py create_intrusion_alert: the severity of the alert.
create_intrusion_alert(event_type) ==
    [event_type |-> event_type, severity |-> "critical"]

\* The media_url both handlers give their alert.
AlertMediaVideo(image_url, video_url) == video_url
AlertMedia(image_url, video_url) == image_url

\* _send_to_server: the severity of the payload.
valid_severities == {"info", "warning", "error", "critical"}

PayloadSeverity(severity) ==
    IF severity \in valid_severities THEN severity ELSE "info"

\* target_channels = channels or ['sms', 'email', 'fcm']
TargetChannels(channels) == IF channels = {} THEN Channels ELSE channels

\* Whether the exception of a send leaves send_alert: every send catches its
\* own.
PropagatesRaise(outcome) == outcome = "raise"
Propagates(outcome) == FALSE

NtfIdle == [pc |-> "idle"]

\* The frame of one alert.
NtfFrame(pc_, origin, event_type, alert, channels, steps) ==
    [pc |-> pc_, origin |-> origin, event_type |-> event_type,
     image_url |-> NoUrl, video_url |-> NoUrl, alert |-> alert,
     channels |-> channels, steps |-> steps,
     attempts |-> [c \in Sends |-> 0], outcomes |-> [c \in Sends |-> "none"],
     payload |-> "none"]

NoAlert == [event_type |-> "none", severity |-> "none", media_url |-> NoUrl]

\* _handle_intrusion_event or _handle_unauthorized_access is past its
\* cooldown check and enters the try block.
HandlerStart ==
    /\ ntf.pc = "idle"
    /\ \E event_type \in IntrusionEvents \cup {"unauthorized_access"} :
          ntf' = NtfFrame("capture_image", "handler", event_type, NoAlert, {}, <<>>)
    /\ UNCHANGED <<sensor_vars, life_vars, drv, test, web_vars>>

\* self._camera.capture_image() returns (path, url) or raises.
AlertCaptureImage ==
    /\ ntf.pc = "capture_image"
    /\ \/ \E url \in ImageUrls :
             ntf' = [ntf EXCEPT !.pc = "record_video", !.image_url = url,
                                !.steps = Append(@, "capture_image")]
       \/ ntf' = [ntf EXCEPT !.pc = "failed"]
    /\ UNCHANGED <<sensor_vars, life_vars, drv, test, web_vars>>

\* self._camera.record_video() returns (path, url) or raises.
AlertRecordVideo ==
    /\ ntf.pc = "record_video"
    /\ \/ \E url \in VideoUrls :
             ntf' = [ntf EXCEPT !.pc = "create_alert", !.video_url = url,
                                !.steps = Append(@, "record_video")]
       \/ ntf' = [ntf EXCEPT !.pc = "failed"]
    /\ UNCHANGED <<sensor_vars, life_vars, drv, test, web_vars>>

\* After the update of the camera entry the handler builds its alert and
\* calls send_alert(alert).
CreateAlert ==
    /\ ntf.pc = "create_alert"
    /\ ntf' = [ntf EXCEPT
                  !.pc = "send_to_server",
                  !.alert = [media_url |-> AlertMedia(ntf.image_url, ntf.video_url)]
                            @@ (IF ntf.event_type = "unauthorized_access"
                                THEN create_rfid_alert(ntf.event_type)
                                ELSE create_intrusion_alert(ntf.event_type)),
                  !.steps = Append(@, "send_alert")]
    /\ UNCHANGED <<sensor_vars, life_vars, drv, test, web_vars>>

\* perform_health_check builds its report as an intrusion alert and sends it
\* by email.
HealthCheck ==
    /\ ntf.pc = "idle"
    /\ ntf' = NtfFrame("send_to_server", "health_check", "health_check",
                       [media_url |-> NoUrl] @@ create_intrusion_alert("health_check"),
                       {"email"}, <<"send_alert">>)
    /\ UNCHANGED <<sensor_vars, life_vars, drv, test, web_vars>>

\* Any other caller of the two builders and of send_alert.
BuildAlert ==
    /\ ntf.pc = "idle"
    /\ \E event_type \in AlertEvents : \E url \in ImageUrls :
       \E rfid \in BOOLEAN : \E channels \in SUBSET Channels :
          ntf' = NtfFrame("send_to_server", "caller", event_type,
                          [media_url |-> url]
                          @@ (IF rfid THEN create_rfid_alert(event_type)
                              ELSE create_intrusion_alert(event_type)),
                          channels, <<"send_alert">>)
    /\ UNCHANGED <<sensor_vars, life_vars, drv, test, web_vars>>

\* One send is attempted.
Attempt(c, outcome) ==
    [ntf EXCEPT !.attempts[c] = @ + 1, !.outcomes[c] = outcome]

NextSend(c) ==
    CASE c = "server" -> "sms"
      [] c = "sms" -> "email"
      [] c = "email" -> "fcm"
      [] OTHER -> "done"

\* server_success = self._send_to_server(alert)
SendToServer ==
    /\ ntf.pc = "send_to_server"
    /\ \E outcome \in SendOutcomes :
          ntf' = [Attempt("server", outcome) EXCEPT
                     !.pc = NextSend("server"),
                     !.payload = PayloadSeverity(ntf.alert.severity)]
    /\ UNCHANGED <<sensor_vars, life_vars, drv, test, web_vars>>

\* if c in target_channels: self._send_sms / _send_email / _send_fcm (alert)
SendChannel(c) ==
    /\ ntf.pc = c
    /\ IF c \in TargetChannels(ntf.channels)
       THEN \E outcome \in SendOutcomes :
               ntf' = [Attempt(c, outcome) EXCEPT
                          !.pc = IF Propagates(outcome) THEN "raised" ELSE NextSend(c)]
       ELSE ntf' = [ntf EXCEPT !.pc = NextSend(c)]
    /\ UNCHANGED <<sensor_vars, life_vars, drv, test, web_vars>>

\* send_alert, or the handler whose capture raised, returns.
AlertReturn ==
    /\ ntf.pc \in {"done", "failed", "raised"}
    /\ ntf' = NtfIdle
    /\ UNCHANGED <<sensor_vars, life_vars, drv, test, web_vars>>

AlertInit ==
    /\ SensorInit
    /\ LifeStarted
    /\ drv = NoDrv
    /\ ntf = NtfIdle
    /\ test = NoTest
    /\ WebOff

AlertNext ==
    \/ HandlerStart
    \/ AlertCaptureImage
    \/ AlertRecordVideo
    \/ CreateAlert
    \/ HealthCheck
    \/ BuildAlert
    \/ SendToServer
    \/ \E c \in Channels : SendChannel(c)
    \/ AlertReturn

SpecAlert == AlertInit /\ [][AlertNext]_vars

\* ------------------------------- _update_sensor_status, both branches
\* The names the table is updated under: a registered one and one that was
\* never registered.
UpdateNames == {"camera", "smoke"}

\* The is_active, error and data the callers pass: a reading with its
\* data, a reading without data, and a failure with its message.
UpdateArgs ==
    {[is_active |-> TRUE, error |-> NoError, data |-> <<"k", "v">>],
     [is_active |-> TRUE, error |-> NoError, data |-> NoData],
     [is_active |-> FALSE, error |-> "err", data |-> NoData]}

\* fallback_type of the else branch.
fallback_type(name) ==
    CASE name \in Workers -> name
      [] name = "camera" -> "camera"
      [] name \in {"door_lock", "window_lock"} -> "actuator"
      [] OTHER -> "unknown"

\* The entry the else branch creates for the call u.
FallbackStatusUncounted(u) ==
    [type |-> fallback_type(u.name), is_active |-> u.is_active,
     last_check |-> u.now, error |-> u.error, data |-> u.data,
     event_count |-> 0, last_event_timestamp |-> NoTime]
FallbackStatus(u) ==
    [type |-> fallback_type(u.name), is_active |-> u.is_active,
     last_check |-> u.now, error |-> u.error, data |-> u.data,
     event_count |-> IF u.event THEN 1 ELSE 0,
     last_event_timestamp |-> IF u.event THEN u.now ELSE NoTime]

\* The body of with self._lock, on the table and the call u.
UpdateTable(table, u) ==
    IF u.name \in DOMAIN table
    THEN [table EXCEPT ![u.name] =
             WriteRest([@ EXCEPT !.is_active = u.is_active, !.last_check = u.now], u)]
    ELSE (u.name :> FallbackStatus(u)) @@ table

\* A thread calls _update_sensor_status(sensor_name, is_active, error, data,
\* event_detected) and reads the clock.
TableCall ==
    /\ pc["api"] = "idle"
    /\ \E name \in UpdateNames : \E a \in UpdateArgs : \E event \in BOOLEAN :
          /\ (event /\ name \in DOMAIN sensor_status) =>
                sensor_status[name].event_count < MaxEvents
          /\ upd' = [upd EXCEPT !["api"] =
                        Call(name, a.is_active, a.error, a.data, event, "idle")]
    /\ pc' = [pc EXCEPT !["api"] = "upd_table"]
    /\ UNCHANGED <<now, sensor_status, lock, last_event_time, reading, prev_reading,
                   cur_time, wake, committed, dispatch_log, suppress_log, fail_log,
                   notify_log, writers, polls>>
    /\ UNCHANGED <<life_vars, drv, ntf, test, web_vars>>

\* It takes the lock, runs the body and returns.
TableWrite ==
    /\ pc["api"] = "upd_table"
    /\ lock = "none"
    /\ sensor_status' = UpdateTable(sensor_status, upd["api"])
    /\ committed' = sensor_status'
    /\ writers' = IF upd["api"].name \in DOMAIN writers
                  THEN [writers EXCEPT ![upd["api"].name] = @ \cup {"api"}]
                  ELSE (upd["api"].name :> {"api"}) @@ writers
    /\ upd' = [upd EXCEPT !["api"] = NoCall]
    /\ pc' = [pc EXCEPT !["api"] = "idle"]
    /\ UNCHANGED <<now, lock, last_event_time, reading, prev_reading, cur_time, wake,
                   dispatch_log, suppress_log, fail_log, notify_log, polls>>
    /\ UNCHANGED <<life_vars, drv, ntf, test, web_vars>>

TableNext ==
    \/ Tick
    \/ TableCall
    \/ TableWrite

SpecTable == Init /\ [][TableNext]_vars

\* ------------------------------------------------- run_sensor_test
\* What the checks of one self-test do: check_motion() and check_state()
\* return a boolean or raise, the reader would answer a read with a status or
\* raise, and the camera works or not.
TestInputs ==
    [motion : {"true", "false", "raise"}, door : {"true", "false", "raise"},
     window : {"true", "false", "raise"}, rfid : {"OK", "NO_TAG", "ERROR", "raise"},
     camera : BOOLEAN]

\* CameraManager.is_active: set in __init__ and assigned nowhere else.
CameraIsActive(works) == FALSE

\* The parameters of RFIDReader.read_card besides self, and the members of
\* RFIDStatus.
ReadCardParameters == {}

RFIDStatusMembers == {"OK", "NO_TAG", "ERROR"}

\* A call of read_card with keyword arguments: a keyword the function does
\* not have raises TypeError before its body runs.
read_card_call(keywords, outcome) ==
    IF keywords \subseteq ReadCardParameters THEN outcome ELSE "raise"

\* The try block of a contact sensor: ok unless the check raised.
ContactTest(outcome) == IF outcome = "raise" THEN "error" ELSE "ok"

\* The try block of the reader: read_card(timeout=0.5), then
\* status in [RFIDStatus.OK, RFIDStatus.NO_CARD].
RfidTest(outcome) ==
    LET status == read_card_call({"timeout"}, outcome)
    IN  CASE status = "raise" -> [status |-> "error", fails |-> TRUE]
          [] ~({"OK", "NO_CARD"} \subseteq RFIDStatusMembers) ->
                [status |-> "error", fails |-> TRUE]
          [] status \in {"OK", "NO_CARD"} -> [status |-> "ok", fails |-> FALSE]
          [] OTHER -> [status |-> "error", fails |-> FALSE]

\* The try block of the camera: get_status().get("is_active").
CameraTest(works) == IF CameraIsActive(works) THEN "ok" ELSE "error"

run_sensor_test(in) ==
    LET results == [motion |-> ContactTest(in.motion),
                    door |-> ContactTest(in.door),
                    window |-> ContactTest(in.window),
                    rfid |-> RfidTest(in.rfid).status,
                    camera |-> CameraTest(in.camera),
                    door_lock |-> "info"]
        all_ok == /\ in.motion # "raise"
                  /\ in.door # "raise"
                  /\ in.window # "raise"
                  /\ ~RfidTest(in.rfid).fails
                  /\ CameraTest(in.camera) = "ok"
    IN  [summary |-> IF all_ok THEN "All tests passed" ELSE "One or more tests failed",
         results |-> results]

\* An operator runs the self-test.
RunSensorTest ==
    /\ test.pc = "idle"
    /\ \E in \in TestInputs :
          test' = [pc |-> "done", in |-> in, ret |-> run_sensor_test(in)]
    /\ UNCHANGED <<sensor_vars, life_vars, drv, ntf, web_vars>>

TestReturn ==
    /\ test.pc = "done"
    /\ test' = NoTest
    /\ UNCHANGED <<sensor_vars, life_vars, drv, ntf, web_vars>>

TestNext ==
    \/ RunSensorTest
    \/ TestReturn

SpecTest == Init /\ [][TestNext]_vars

\* ------------------------------------------- the shared cooldown
\* The entry of a worker that has just counted a positive poll at time 0:
\* the second update of the poll (the RFID worker's only one) has returned.
CountedStatus(w) ==
    [InitialStatus(w) EXCEPT
        !.is_active = TRUE,
        !.data = IF w = "rfid" THEN <<"authorized", "denied">>
                               ELSE <<DataKey(w), "true">>,
        !.event_count = 1,
        !.last_event_timestamp = 0]

\* The workers that have an event to hand over; the window worker is asleep.
Reporting == {"motion", "door", "rfid"}

CountedTable ==
    [e \in Entries |-> IF e \in Reporting THEN CountedStatus(e) ELSE InitialStatus(e)]

\* Each of these workers has polled once, read its condition true (the RFID
\* worker a denied card), counted the event, and is about to call its event
\* handler.
CooldownInit ==
    /\ now = 0
    /\ sensor_status = CountedTable
    /\ lock = "none"
    /\ last_event_time = 0 - Cooldown
    /\ pc = [t \in Threads |-> CASE t = "api" -> "idle"
                                [] t \in Reporting -> "handle"
                                [] OTHER -> "poll"]
    /\ reading = [t \in Workers |-> CASE t = "rfid" -> "denied"
                                    [] t \in Reporting -> "true"
                                    [] OTHER -> "false"]
    /\ prev_reading = [t \in Workers |-> "false"]
    /\ cur_time = [t \in Workers |-> NoTime]
    /\ wake = [t \in Workers |-> 0]
    /\ upd = [t \in Threads |-> NoCall]
    /\ committed = CountedTable
    /\ dispatch_log = {}
    /\ suppress_log = {}
    /\ fail_log = {}
    /\ notify_log = {}
    /\ writers = [e \in Entries |-> IF e \in Reporting THEN {e} ELSE {}]
    /\ polls = MaxPolls
    /\ LifeStarted
    /\ drv = NoDrv
    /\ ntf = NoNtf
    /\ test = NoTest
    /\ WebOff

\* The event handlers of the four workers, with the updates of the camera
\* entry they make.
CooldownNext ==
    \/ Tick
    \/ \E t \in Workers : UpdLock(t) \/ UpdWrite(t)
    \/ \E t \in Workers : Handle(t) \/ CaptureImage(t) \/ RecordVideo(t) \/ SendAlert(t)

SpecCooldown == CooldownInit /\ [][CooldownNext]_vars

\* ------------------------------------------- the server and the Pi API
\* routes.py post_control: the actions the route lets through, and the ones
\* that need an administrator.
valid_actions ==
    {"lock", "unlock", "restart_system", "test_sensors", "capture_image",
     "record_video", "clear_logs", "update_firmware", "lock_window", "unlock_window"}

admin_actions == {"restart_system", "update_firmware"}

\* The commands tests/test_routes.py posts: two it expects to be accepted, one
\* it expects to be refused.
TestAccepted == {"lock_door", "unlock_window"}
TestRefused == {"invalid"}

\* The actions a request can carry.
ControlActions == valid_actions \cup TestAccepted \cup TestRefused

\* RaspberryPiClient.__init__
retry_count == 3
retry_delay == 1

\* Requests the server handles in one run.
MaxRequests == 2

\* api_server.py: the module-level flag is initialised False and never
\* assigned again; setup_door_lock does not set it.
IS_GPIO_SETUP == FALSE

NoResponse == [status |-> 0, message |-> "none", names |-> "none", log_id |-> 0]

\* The server between two requests, with its log table.
SrvIdle(logs, requests) ==
    [pc |-> "idle", route |-> "none", action |-> "none", logs |-> logs,
     requests |-> requests, request |-> "none", attempts |-> <<>>,
     waits |-> <<>>, error |-> "none", executed |-> 0, forwarded |-> FALSE,
     response |-> NoResponse]

\* The Pi API server once create_pi_api_server has returned: setup_door_lock
\* and setup_window_lock did not raise.
PiIdle(is_rpi) ==
    [pc |-> "idle", IS_RPI |-> is_rpi, action |-> "none", door_lock |-> "none",
     last |-> "none", result |-> "none", code |-> 0]

\* The id the database gives a new row of log_entries: an integer primary key.
NextLogId(logs) == Len(logs) + 1

LogRow(logs, event_type) == [id |-> NextLogId(logs), event_type |-> event_type]

\* The route answers and the request is over.
Respond(f, status, message, names, log_id) ==
    [f EXCEPT !.pc = "responded",
              !.response = [status |-> status, message |-> message,
                            names |-> names, log_id |-> log_id]]

\* routes.py post_alert with process_alert_and_event, for an authenticated
\* user: an empty message is refused, a database failure becomes 500, and
\* otherwise one manual_alert row is added (severity INFO makes no alert row).
PostAlert ==
    /\ srv.pc = "idle"
    /\ srv.requests < MaxRequests
    /\ \E message \in {"", "Test alert from API"} : \E db_ok \in BOOLEAN :
          LET f == [srv EXCEPT !.route = "alert", !.requests = @ + 1]
          IN  srv' =
                IF message = ""
                THEN Respond(f, 400, "Alert message is required", "none", 0)
                ELSE IF ~db_ok
                THEN Respond(f, 500, "Failed to process alert", "none", 0)
                ELSE Respond([f EXCEPT !.logs = Append(@, LogRow(@, "manual_alert"))],
                             201, "Alert processed successfully", "none",
                             NextLogId(srv.logs))
    /\ UNCHANGED <<sensor_vars, life_vars, drv, ntf, test, pi, rl>>

\* routes.py post_control up to the call of client.execute_command: the
\* action is validated, the permission checked, and execute_control_command
\* turns a missing Pi URL into 503.
PostControl ==
    /\ srv.pc = "idle"
    /\ srv.requests < MaxRequests
    /\ \E action \in ControlActions : \E is_admin \in BOOLEAN : \E configured \in BOOLEAN :
          LET f == [srv EXCEPT !.route = "control", !.action = action,
                               !.requests = @ + 1]
          IN  srv' =
                IF action \notin valid_actions
                THEN Respond(f, 400, "Invalid command action", "none", 0)
                ELSE IF action \in admin_actions /\ ~is_admin
                THEN Respond(f, 403, "Insufficient permissions for this command",
                             "none", 0)
                ELSE IF ~configured
                THEN Respond(f, 503, "Failed to execute command", action, 0)
                ELSE [f EXCEPT !.pc = "attempt", !.request = "running"]
    /\ UNCHANGED <<sensor_vars, life_vars, drv, ntf, test, pi, rl>>

\* asyncio.sleep(self.retry_delay * (attempt + 1)), attempt counting from 0.
RetryWaitFlat(attempt) == retry_delay
RetryWait(attempt) == retry_delay * (attempt + 1)

\* The except clauses of _make_request: the last attempt re-raises, and
\* execute_control_command turns that into 503; an earlier one sleeps and
\* goes round the loop.
Failed(f, outcome) ==
    LET attempt == Len(f.attempts)
        g == [f EXCEPT !.attempts = Append(@, outcome)]
    IN  IF attempt = retry_count - 1
        THEN Respond([g EXCEPT !.request = "raised", !.error = outcome],
                     503, "Failed to execute command", f.action, 0)
        ELSE [g EXCEPT !.waits = Append(@, RetryWait(attempt)), !.pc = "attempt"]

\* One pass of for attempt in range(self.retry_count): the POST goes out and
\* reaches the Pi.
ClientSend ==
    /\ srv.pc = "attempt"
    /\ pi.pc = "idle"
    /\ srv' = [srv EXCEPT !.pc = "sent", !.forwarded = TRUE]
    /\ pi' = [pi EXCEPT !.pc = "handling", !.action = srv.action]
    /\ UNCHANGED <<sensor_vars, life_vars, drv, ntf, test, rl>>

\* ... or the POST does not reach the Pi: the connection fails or times out.
ClientSendFails ==
    /\ srv.pc = "attempt"
    /\ \E outcome \in {"client_error", "timeout"} : srv' = Failed(srv, outcome)
    /\ UNCHANGED <<sensor_vars, life_vars, drv, ntf, test, pi, rl>>

\* lock_door / unlock_door: what the call returns and what it leaves in the
\* door_lock entry of the status table.
DoorLock(p, locked, gpio_raises) ==
    IF ~p.IS_RPI
    THEN [status |-> "success", door_lock |-> p.door_lock]
    ELSE IF ~IS_GPIO_SETUP
    THEN [status |-> "error", door_lock |-> p.door_lock]
    ELSE IF gpio_raises
    THEN [status |-> "error", door_lock |-> p.door_lock]
    ELSE [status |-> "success", door_lock |-> locked]

\* lock_window / unlock_window.
WindowLock(p, gpio_raises) ==
    IF ~p.IS_RPI THEN "success"
    ELSE IF ~IS_WINDOW_GPIO_SETUP \/ gpio_raises THEN "error"
    ELSE "success"

\* The branches of control_pi on the action: the result it returns with 200,
\* or the 500 of an action that raised.
ControlResult(p, action, works) ==
    CASE action = "lock" ->
            [p EXCEPT !.result = DoorLock(p, "true", ~works).status,
                      !.door_lock = DoorLock(p, "true", ~works).door_lock,
                      !.last = "lock", !.code = 200]
      [] action = "unlock" ->
            [p EXCEPT !.result = DoorLock(p, "false", ~works).status,
                      !.door_lock = DoorLock(p, "false", ~works).door_lock,
                      !.last = "unlock", !.code = 200]
      [] action \in {"lock_window", "unlock_window"} ->
            [p EXCEPT !.result = WindowLock(p, ~works), !.code = 200]
      [] action = "update_firmware" ->
            [p EXCEPT !.result = "warning", !.code = 200]
      [] OTHER ->
            IF works THEN [p EXCEPT !.result = "success", !.code = 200]
            ELSE [p EXCEPT !.result = "none", !.code = 500]

\* control_pi behind require_api_key: a request with the wrong key gets 401
\* and nothing is executed; otherwise the action is executed.
ControlPi ==
    /\ pi.pc = "handling"
    /\ \E key_ok \in BOOLEAN : \E works \in BOOLEAN :
          IF key_ok
          THEN /\ pi' = [ControlResult(pi, pi.action, works) EXCEPT !.pc = "replied"]
               /\ srv' = [srv EXCEPT !.executed = @ + 1]
          ELSE /\ pi' = [pi EXCEPT !.pc = "replied", !.result = "none", !.code = 401]
               /\ UNCHANGED srv
    /\ UNCHANGED <<sensor_vars, life_vars, drv, ntf, test, rl>>

\* async with ... as response: the reply arrives (raise_for_status raises on
\* 4xx and 5xx), or the connection breaks or the 30 s timeout passes first.
ClientReceive ==
    /\ srv.pc = "sent"
    /\ pi.pc = "replied"
    /\ \E got \in {"reply", "client_error", "timeout"} :
          srv' = IF got = "reply"
                 THEN IF pi.code = 200
                      THEN [srv EXCEPT !.attempts = Append(@, "ok"),
                                       !.request = "returned", !.pc = "log"]
                      ELSE Failed(srv, "http_error")
                 ELSE Failed(srv, got)
    /\ pi' = [pi EXCEPT !.pc = "idle", !.action = "none", !.code = 0]
    /\ UNCHANGED <<sensor_vars, life_vars, drv, ntf, test, rl>>

\* execute_control_command after the Pi answered: the command is logged (a
\* database error is swallowed) and post_control answers 200.
LogCommand ==
    /\ srv.pc = "log"
    /\ \E db_ok \in BOOLEAN :
          srv' = Respond([srv EXCEPT !.logs = IF db_ok
                                              THEN Append(@, LogRow(@, "control_command"))
                                              ELSE @],
                         200, "sent to Raspberry Pi successfully", srv.action, 0)
    /\ UNCHANGED <<sensor_vars, life_vars, drv, ntf, test, pi, rl>>

\* The response has gone out; the server waits for the next request.
Finish ==
    /\ srv.pc = "responded"
    /\ srv' = SrvIdle(srv.logs, srv.requests)
    /\ UNCHANGED <<sensor_vars, life_vars, drv, ntf, test, pi, rl>>

ServerInit ==
    /\ SensorInit
    /\ LifeStarted
    /\ drv = NoDrv
    /\ ntf = NoNtf
    /\ test = NoTest
    /\ srv = SrvIdle(<<>>, 0)
    /\ pi \in {PiIdle(b) : b \in BOOLEAN}
    /\ rl = NoRl

ServerNext ==
    \/ PostAlert
    \/ PostControl
    \/ ClientSend
    \/ ClientSendFails
    \/ ControlPi
    \/ ClientReceive
    \/ LogCommand
    \/ Finish

SpecServer == ServerInit /\ [][ServerNext]_vars

\* Every step of a request is taken in the end: the event loop runs the
\* coroutine, the Pi answers, and a sleep or a timeout passes.
SpecRequest == ServerInit /\ [][ServerNext]_vars /\ WF_vars(ServerNext)

\* --------------------------------------------------- the rate limiter
\* rate_limit.py
RATE_LIMIT_REQUESTS == 100
RATE_LIMIT_WINDOW == 60

\* The seconds the clock of the limiter goes through, and the calls of
\* check_rate_limit in one run.
MaxClock == 2
MaxChecks == 101

\* The limiter with Redis connected and no key stored.
RlIdle == [pc |-> "idle", now |-> 0, zset |-> {}, checks |-> 0, admitted |-> 0,
           refused |-> 0]

\* zremrangebyscore(key, 0, current_time - RATE_LIMIT_WINDOW) on the sorted
\* set of the key, whose members are the strings of their scores.
zremrangebyscore(zset, min, max) == {m \in zset : ~(min <= m /\ m <= max)}

\* zadd(key, {str(current_time): current_time}): a member that is already in
\* the set gets its score written again, the set does not grow.
zadd(zset, current_time) == zset \cup {current_time}

zcard(zset) == Cardinality(zset)

\* int(time.time()) moves on to the next second.
RlTick ==
    /\ rl.pc = "idle"
    /\ rl.now < MaxClock
    /\ rl' = [rl EXCEPT !.now = @ + 1]
    /\ UNCHANGED <<sensor_vars, life_vars, drv, ntf, test, srv, pi>>

\* check_rate_limit for a request of the one client key, Redis answering.
CheckRateLimit ==
    /\ rl.pc = "idle"
    /\ rl.checks < MaxChecks
    /\ LET current_time == rl.now
           cleaned == zremrangebyscore(rl.zset, 0, current_time - RATE_LIMIT_WINDOW)
       IN  rl' = IF zcard(cleaned) >= RATE_LIMIT_REQUESTS
                 THEN [rl EXCEPT !.zset = cleaned, !.checks = @ + 1,
                                 !.refused = @ + 1]
                 ELSE [rl EXCEPT !.zset = zadd(cleaned, current_time),
                                 !.checks = @ + 1, !.admitted = @ + 1]
    /\ UNCHANGED <<sensor_vars, life_vars, drv, ntf, test, srv, pi>>

LimitInit ==
    /\ SensorInit
    /\ LifeStarted
    /\ drv = NoDrv
    /\ ntf = NoNtf
    /\ test = NoTest
    /\ srv = NoSrv
    /\ pi = NoPi
    /\ rl = RlIdle

LimitNext ==
    \/ RlTick
    \/ CheckRateLimit

SpecLimit == LimitInit /\ [][LimitNext]_vars

\* ------------------------------------------------------- properties
Abs(x) == IF x < 0 THEN 0 - x ELSE x

\* The handler of the event e is over: its worker is no longer dispatching it.
Finished(e) == cur_time[e.ch] # e.at

\* Only the channel w has started a dispatch.
OnlyChannel(w) == \A e \in dispatch_log : e.ch = w

InDispatch(t) == pc[t] \in {"capture_image", "record_video", "send_alert"}

\* C1: with one channel dispatching, once an event has been dispatched
\* (capture and notify invoked) at t, (a) no further event before t + D
\* starts a capture, (b) an event is turned away only inside the window of such
\* a dispatch, and (c) an event at t + D or later gets capture and notify again.
C1_one_dispatch_per_window ==
    \A w \in Workers : OnlyChannel(w) =>
        /\ \A n \in notify_log : \A d \in dispatch_log :
              (d # n /\ d.at >= n.at) => d.at >= n.at + Cooldown
        /\ \A s \in suppress_log :
              s.ch = w => \E n \in notify_log : n.at <= s.at /\ s.at < n.at + Cooldown
        /\ \A d \in dispatch_log :
              ((\E n \in notify_log : n.at + Cooldown <= d.at) /\ Finished(d))
                  => d \in notify_log

\* C2: any two dispatches (capture followed by notify) of the manager start at
\* least D apart, whichever workers made them.
C2_dispatches_apart ==
    \A a \in notify_log : \A b \in notify_log :
        a # b => Abs(a.at - b.at) >= Cooldown

\* C3: when a dispatch attempt ends, on success or on an exception, the
\* cooldown timestamp is the time of that attempt.
C3_timestamp_after_attempt ==
    [][\A t \in Workers :
          (cur_time[t] # NoTime /\ cur_time'[t] = NoTime)
              => last_event_time' = cur_time[t]]_vars

\* C4: a dispatch whose capture_image or record_video raised has still invoked
\* the notification by the time its handler is over.
C4_notify_without_media ==
    \A e \in fail_log : Finished(e) => e \in notify_log

\* C5: every poll of a motion, door or window worker is in the channel's
\* entry.  When the worker reaches the event handler, where the cooldown is
\* checked, the entry already has is_active, the reading, and the event counted
\* with the timestamp of its update, whether or not the cooldown is active;
\* after the first update of a poll, and once the worker is back at the top of
\* its loop, the entry shows the reading of that poll.
C5_table_written_before_cooldown ==
    \A w \in ContactWorkers :
        /\ pc[w] = "handle" =>
              /\ sensor_status[w].is_active
              /\ sensor_status[w].error = NoError
              /\ sensor_status[w].data = <<DataKey(w), "true">>
              /\ sensor_status[w].event_count >= 1
              /\ sensor_status[w].last_event_timestamp = sensor_status[w].last_check
              /\ sensor_status[w].last_check >= wake[w]
        /\ pc[w] = "checked" =>
              /\ sensor_status[w].is_active
              /\ sensor_status[w].data = <<DataKey(w), "true">>
              /\ sensor_status[w].last_check >= wake[w]
        /\ (pc[w] = "poll" /\ sensor_status[w].is_active) =>
              /\ sensor_status[w].data = <<DataKey(w), reading[w]>>
              /\ sensor_status[w].last_check < wake[w]

\* A worker is at the cooldown check of an event it counted inside the active
\* window of an earlier dispatch.
C5_witness ==
    \E w \in ContactWorkers :
        /\ pc[w] = "handle"
        /\ CooldownActive(now)
        /\ notify_log # {}
        /\ sensor_status[w].last_event_timestamp >= last_event_time
        /\ sensor_status[w].last_event_timestamp - last_event_time < Cooldown

\* is_active and error of an entry agree.
Consistent(s) ==
    /\ s.is_active => s.error = NoError
    /\ s.error # NoError => ~s.is_active

\* C6: while get_sensor_status copies the table, every entry is as a complete
\* _update_sensor_status call left it, and its is_active and error agree.
C6_snapshot_consistent ==
    pc["api"] = "snapshot" =>
        \A e \in Entries :
            /\ sensor_status[e] = committed[e]
            /\ Consistent(sensor_status[e])

\* A snapshot is taken while a worker waits for the lock with its update, of a
\* table that holds an entry with an error and an entry with a counted event.
C6_witness ==
    /\ pc["api"] = "snapshot"
    /\ \E t \in Workers : pc[t] = "upd_lock"
    /\ \E e \in Entries : sensor_status[e].error # NoError
    /\ \E e \in Entries : sensor_status[e].event_count > 0

\* C7: last_check of an entry never decreases.
C7_last_check_monotonic ==
    [][\A e \in Entries :
          sensor_status'[e].last_check >= sensor_status[e].last_check]_vars

\* C8 as stated: every entry has at most one writing thread.
C8_single_writer ==
    \A e \in Entries : Cardinality(writers[e]) <= 1

\* C8: the motion, door, window and rfid entries are written by their own
\* worker only; the camera entry is written by the workers, by each one that
\* dispatches.
C8_channel_owner ==
    /\ \A e \in Workers : writers[e] \subseteq {e}
    /\ writers["camera"] \subseteq Workers

\* Two workers have written their own entries and both the camera entry.
C8_witness ==
    \E a \in Workers : \E b \in Workers :
        /\ a # b
        /\ {a, b} \subseteq writers["camera"]
        /\ writers[a] = {a}
        /\ writers[b] = {b}

\* C9: a thread inside capture_image, record_video or send_alert does not hold
\* the lock of the table; the lock is held only inside an update or the copy
\* of get_sensor_status.
C9_no_lock_in_dispatch ==
    /\ \A t \in Workers : InDispatch(t) => lock # t
    /\ lock # "none" => pc[lock] \in {"upd_write", "snapshot"}

\* While one worker is inside capture or notify, another thread holds the lock.
C9_witness ==
    \E t \in Workers : InDispatch(t) /\ lock \notin {"none", t}

\* C10: a worker reaches the event handler only when the reading of the
\* previous poll was not already true.
C10_event_on_transition ==
    \A w \in ContactWorkers : pc[w] = "handle" => prev_reading[w] # "true"

\* The poll of the worker w is over and its read of the sensor or bus failed.
FailedPoll(w) == pc[w] = "poll" /\ reading[w] = "error"

\* The poll of the worker w is over, its read went well, and the read of the
\* poll before had failed.
RecoveredPoll(w) ==
    pc[w] = "poll" /\ prev_reading[w] = "error" /\ reading[w] # "error"

\* C11: for each of motion, door, window and rfid, a failed read leaves the
\* channel's entry with an error and is_active false, is_healthy() stays true,
\* and the first good read after failed ones leaves the entry with no error
\* and is_active true.
C11_fault_recorded ==
    /\ IsHealthy
    /\ \A w \in Workers :
          /\ FailedPoll(w) =>
                (sensor_status[w].error # NoError /\ ~sensor_status[w].is_active)
          /\ RecoveredPoll(w) =>
                (sensor_status[w].error = NoError /\ sensor_status[w].is_active)

\* C12: is_healthy() is true only when start() has been called with no stop()
\* after it (the list of threads is not empty) and every thread of the list is
\* alive; it is false when the flag is clear or a thread of the list has ended.
C12_healthy_iff_running ==
    /\ IsHealthy => (threads # 0 /\ \A th \in ThreadList(threads) : IsAlive(th))
    /\ (~running \/ \E th \in ThreadList(threads) : ~IsAlive(th)) => ~IsHealthy

\* C13: stop() returns, and every worker alive when the flag is clear ends.
C13_workers_terminate ==
    /\ (main.pc = "stop") ~> (main.pc \in {"idle", "start_threads"})
    /\ \A th \in ThreadIds : (~running /\ IsAlive(th)) ~> ~IsAlive(th)

\* C14: at most one worker thread of a channel is alive.
C14_one_worker_per_channel ==
    \A ch \in Workers :
        Cardinality({g \in 1 .. MaxStarts : IsAlive(<<ch, g>>)}) <= 1

\* authenticate_card denies, with no role, every five-byte UID that is not a
\* key of the table, and the alert of an unauthorized access is critical.
UnknownCardDenied ==
    /\ \A uid \in Replies :
          (Len(uid) = 5 /\ uid \notin DOMAIN AUTHORIZED_CARDS)
              => authenticate_card(uid) = [status |-> "ERROR", role |-> NoRole]
    /\ create_rfid_alert("unauthorized_access").severity = "critical"

\* C15: a card that is not in the table is denied with no role, and the rfid
\* worker's handling of it invokes capture and notify, once each, as a critical
\* unauthorized_access alert; a denied read is turned away only as a repeat
\* within D of such an alert, and no two captures for denied reads start less
\* than D apart.
C15_unauthorized_alert ==
    /\ UnknownCardDenied
    /\ \A d \in dispatch_log : (d.ch = "rfid" /\ Finished(d)) => d \in notify_log
    /\ \A s \in suppress_log :
          s.ch = "rfid" =>
              \E n \in notify_log :
                  n.ch = "rfid" /\ n.at <= s.at /\ s.at < n.at + Cooldown
    /\ \A a \in dispatch_log : \A b \in dispatch_log :
          (a.ch = "rfid" /\ b.ch = "rfid" /\ a # b) => Abs(a.at - b.at) >= Cooldown

\* authenticate_card grants every key of the table with its role; the card
\* (5, 74, 28, 185, 234) is an admin.
TableCardGranted ==
    /\ \A uid \in DOMAIN AUTHORIZED_CARDS :
          authenticate_card(uid) = [status |-> "OK", role |-> AUTHORIZED_CARDS[uid]]
    /\ authenticate_card(<<5, 74, 28, 185, 234>>).role = "admin"

\* The rfid worker takes the step.
RfidStep ==
    \/ pc'["rfid"] # pc["rfid"]
    \/ upd'["rfid"] # upd["rfid"]
    \/ reading'["rfid"] # reading["rfid"]

\* C16: a card of the table is granted with its role, and no step the rfid
\* worker takes on a granted card enters the event handler, starts a capture,
\* sends a notification or changes the cooldown timestamp.
C16_granted_no_dispatch ==
    [][/\ TableCardGranted
       /\ (RfidStep /\ reading'["rfid"] = "granted") =>
              /\ pc'["rfid"] \in {"poll", "upd_lock", "upd_write"}
              /\ cur_time'["rfid"] = NoTime
              /\ last_event_time' = last_event_time
              /\ dispatch_log' = dispatch_log
              /\ notify_log' = notify_log]_vars

\* The rfid worker is back at the top of its loop after a granted card, which
\* is in the table as a counted event.
C16_witness ==
    /\ pc["rfid"] = "poll"
    /\ reading["rfid"] = "granted"
    /\ sensor_status["rfid"].data = <<"authorized", "granted">>
    /\ sensor_status["rfid"].event_count >= 1
    /\ last_event_time = 0 - Cooldown

\* The driver is inside an iteration of _handle_rfid that has read the bus.
InCardRead == drv.pc \in {"read_done", "authenticated", "unauthorized", "sleep"}

\* C17: read_card returns OK only with a UID of five bytes, so a UID of any
\* other length reaches neither authenticate_card nor the unauthorized
\* access handler.
C17_uid_five_bytes ==
    InCardRead =>
        /\ drv.status = "OK" => Len(drv.uid) = 5
        /\ drv.pc \in {"authenticated", "unauthorized"} => Len(drv.uid) = 5

\* C18: when both exchanges succeed and the reply has five bytes,
\* MFRC522_Anticoll returns OK exactly when the XOR of the first four bytes
\* is the fifth; on a mismatch it returns a status that is not OK without
\* raising, read_card returns that status with an empty UID, and the card is
\* neither authenticated nor reported.
C18_checksum_decides ==
    (InCardRead /\ drv.req = "OK" /\ drv.ex = "OK" /\ Len(drv.back) = 5) =>
        /\ drv.anticoll = "OK" <=> SerNumCheck(drv.back) = drv.back[5]
        /\ SerNumCheck(drv.back) = drv.back[5] =>
              (drv.status = "OK" /\ drv.uid = drv.back)
        /\ SerNumCheck(drv.back) # drv.back[5] =>
              /\ drv.anticoll \in {"ERROR", "NO_TAG"}
              /\ drv.status = drv.anticoll
              /\ drv.uid = <<>>
              /\ drv.pc \in {"read_done", "sleep"}
              /\ drv.alert = "none"

\* The admin card with a flipped check byte was read and the iteration is
\* over without authentication or alert.
C18_witness ==
    /\ drv.pc = "sleep"
    /\ drv.req = "OK"
    /\ drv.ex = "OK"
    /\ drv.back = <<5, 74, 28, 185, 235>>
    /\ drv.anticoll = "ERROR"
    /\ drv.uid = <<>>

\* C19: authenticate_card returns (OK, role of the table) exactly for a UID
\* of five bytes that is a key of the table and (ERROR, no role) for every
\* other UID; the call touches nothing but its result.
C19_authenticate_total ==
    [][drv'.pc = "authenticated" =>
          /\ drv.pc = "read_done"
          /\ IF Len(drv.uid) = 5 /\ drv.uid \in DOMAIN AUTHORIZED_CARDS
             THEN drv'.auth = "OK" /\ drv'.role = AUTHORIZED_CARDS[drv.uid]
             ELSE drv'.auth = "ERROR" /\ drv'.role = NoRole
          /\ drv' = [drv EXCEPT !.pc = "authenticated",
                                !.auth = drv'.auth, !.role = drv'.role]
          /\ UNCHANGED <<sensor_vars, life_vars, ntf, test, web_vars>>]_vars

\* A UID of five bytes that is not in the table has been denied with no role.
C19_witness ==
    /\ drv.pc = "authenticated"
    /\ drv.uid = <<1, 0, 0, 0, 1>>
    /\ drv.auth = "ERROR"
    /\ drv.role = NoRole

\* C20: write_card_data reports failure whenever one of its two phases is
\* not acknowledged, and read_card_data reports failure whenever the read
\* exchange is not OK with a reply of 16 bytes.
C20_failure_reported ==
    drv.pc = "data_done" =>
        /\ (drv.op = "write" /\ ~(Acked(drv.x1) /\ Acked(drv.x2))) => ~drv.result
        /\ (drv.op = "read" /\ ~(drv.x.status = "OK" /\ drv.x.n = 16)) => ~drv.result

\* C21: MFRC522_ToCard reads the interrupt register at most 2000 times and
\* CalculateCRC reads its register at most 255 times, and a wait that used up
\* its ceiling without the awaited flag is reported to the caller as ERROR.
C21_waits_bounded ==
    /\ drv.pc \in {"tocard_wait", "tocard_check", "tocard_done"} =>
          /\ drv.reads <= ToCardCeiling
          /\ drv.i = ToCardCeiling - drv.reads
    /\ drv.pc \in {"crc_wait", "crc_done"} => drv.reads <= CrcCeiling
    /\ (drv.pc = "tocard_done" /\ drv.i = 0
          /\ And(drv.n, 1) = 0 /\ And(drv.n, WaitIRq(drv.command)) = 0) =>
          drv.status = "ERROR"
    /\ (drv.pc = "crc_done" /\ And(drv.n, 4) = 0) => drv.ret = "ERROR"

\* C22: MFRC522_Request returns OK only for an exchange that is OK with a
\* reply of 16 bits; for every other status or length it returns a status
\* that is not OK, and read_card then returns an empty UID without running
\* the anti-collision.
C22_request_needs_16_bits ==
    InCardRead =>
        /\ drv.req = "OK" <=> (drv.rex = "OK" /\ drv.bits = 16)
        /\ (drv.rex # "raise" /\ ~(drv.rex = "OK" /\ drv.bits = 16)) =>
              /\ drv.req = "ERROR"
              /\ drv.status = "ERROR"
              /\ drv.uid = <<>>
              /\ drv.anticoll = "none"

\* A request whose exchange was OK with a reply of 8 bits: the iteration is
\* over with no UID and no anti-collision.
C22_witness ==
    /\ drv.pc = "sleep"
    /\ drv.rex = "OK"
    /\ drv.bits = 8
    /\ drv.req = "ERROR"
    /\ drv.uid = <<>>
    /\ drv.anticoll = "none"

\* C23: MFRC522_Auth returns OK only when its exchange was OK and the
\* crypto bit 0x08 of Status2Reg is set, and ERROR in every other case.
C23_auth_needs_crypto_bit ==
    drv.pc = "auth_done" =>
        IF drv.exchange = "OK" /\ And(drv.status2, 8) # 0
        THEN drv.ret = "OK"
        ELSE drv.ret = "ERROR"

\* An alert is under way.
InAlert == ntf.pc \notin {"off", "idle"}

\* send_alert has been invoked.
InSend == ntf.pc \in {"send_to_server", "sms", "email", "fcm", "done", "raised"}

\* C24: in a handler, send_alert is invoked only after capture_image and
\* record_video have both returned, and the alert it is given carries the
\* URL that capture_image returned.
C24_capture_before_alert ==
    (InAlert /\ ntf.origin = "handler") =>
        /\ (InSend \/ \E c \in Sends : ntf.attempts[c] > 0) =>
              /\ ntf.steps = <<"capture_image", "record_video", "send_alert">>
              /\ ntf.alert.media_url = ntf.image_url
        /\ ~InSend => ntf.alert = NoAlert

\* A door event was sent with the URL of its image, which is not the URL of
\* its video.
C24_witness ==
    /\ ntf.pc = "done"
    /\ ntf.origin = "handler"
    /\ ntf.event_type = "door_opened"
    /\ ntf.image_url = "image_url"
    /\ ntf.video_url = "video_url"
    /\ ntf.alert.media_url = "image_url"
    /\ ntf.attempts["server"] = 1

\* C25: an alert for motion_detected, door_opened, window_opened or
\* unauthorized_access is critical, and an alert for any other event type is
\* not, in the alert and in the payload posted to the server.
C25_severity_by_event ==
    (InAlert /\ ntf.alert # NoAlert) =>
        IF ntf.alert.event_type \in IntrusionEvents \cup {"unauthorized_access"}
        THEN /\ ntf.alert.severity = "critical"
             /\ ntf.payload \in {"none", "critical"}
        ELSE /\ ntf.alert.severity # "critical"
             /\ ntf.payload # "critical"

\* C26: send_alert attempts the server report and every channel it was asked
\* for once each, whatever the other sends did, and no exception of a send
\* leaves it.
C26_every_send_once ==
    InAlert =>
        /\ ntf.pc # "raised"
        /\ \A c \in Sends : ntf.attempts[c] <= 1
        /\ ntf.pc = "done" =>
              /\ ntf.attempts["server"] = 1
              /\ \A c \in Channels :
                    ntf.attempts[c] = IF c \in TargetChannels(ntf.channels) THEN 1 ELSE 0

\* The server report failed and the SMS raised, and email and push were
\* still attempted.
C26_witness ==
    /\ ntf.pc = "done"
    /\ ntf.channels = {"sms", "email", "fcm"}
    /\ ntf.outcomes["server"] = "fail"
    /\ ntf.outcomes["sms"] = "raise"
    /\ ntf.attempts["email"] = 1
    /\ ntf.attempts["fcm"] = 1

\* C27: an update under a name the table does not have creates the entry
\* with the given is_active, error and data, with event_count 1 and the
\* event timestamp when event_detected and with 0 and none otherwise, and
\* changes no other entry.
C27_fallback_entry ==
    [][(pc["api"] = "upd_table" /\ pc'["api"] = "idle"
          /\ upd["api"].name \notin DOMAIN sensor_status) =>
          LET u == upd["api"]
              new == sensor_status'[u.name]
          IN  /\ DOMAIN sensor_status' = DOMAIN sensor_status \cup {u.name}
              /\ new.is_active = u.is_active
              /\ new.error = u.error
              /\ new.data = u.data
              /\ new.event_count = IF u.event THEN 1 ELSE 0
              /\ new.last_event_timestamp = IF u.event THEN u.now ELSE NoTime
              /\ \A e \in DOMAIN sensor_status : sensor_status'[e] = sensor_status[e]]_vars

\* The entry of the unregistered name was created by an update that carried
\* an event.
C27_witness ==
    /\ "smoke" \in DOMAIN sensor_status
    /\ sensor_status["smoke"].type = "unknown"
    /\ sensor_status["smoke"].event_count = 1
    /\ sensor_status["smoke"].last_event_timestamp = 1
    /\ sensor_status["smoke"].error = "err"
    /\ sensor_status["camera"] = InitialStatus("camera")

\* The worker threads that are inside the body of _handle_rfid, where
\* read_card() talks to the reader.
BusUsers == {th \in ThreadIds : th[1] = "rfid" /\ worker[th] = "iter"}

\* C28: the reader bus has one user, the RFID worker: no two threads are at
\* the reader at the same time.
C28_one_bus_user == Cardinality(BusUsers) <= 1

\* C29: the self-test reports ok for every sensor whose check succeeded and
\* error for every sensor whose check raised, and when the four reads
\* succeed and the camera works every result is ok and the summary is
\* 'All tests passed'.
C29_self_test_results ==
    test.pc = "done" =>
        /\ \A ch \in Workers :
              test.ret.results[ch] = IF test.in[ch] = "raise" THEN "error" ELSE "ok"
        /\ ((\A ch \in Workers : test.in[ch] # "raise") /\ test.in.camera) =>
              /\ \A ch \in Workers \cup {"camera"} : test.ret.results[ch] = "ok"
              /\ test.ret.summary = "All tests passed"

\* The worker w has written a true reading with the first update of a poll
\* and has not yet made the second one, the one with event_detected.
CountPending(w) ==
    /\ reading[w] = "true"
    /\ \/ pc[w] = "checked"
       \/ pc[w] = "upd_lock" /\ upd[w].name = w /\ upd[w].event

\* C33: no copy taken by get_sensor_status shows the data of a motion, door or
\* window entry reporting the condition true for a poll whose event is not
\* yet counted: the reading and the event counters of one poll become visible
\* together.
C33_detection_with_count ==
    pc["api"] = "snapshot" =>
        \A w \in ContactWorkers :
            sensor_status[w].data = <<DataKey(w), "true">> => ~CountPending(w)

\* The dispatch n has recorded its time in _last_event_time.
Recorded(n) == n \in notify_log /\ Finished(n)

\* C34: the cooldown is shared by all channels.  Once a dispatch has recorded
\* _last_event_time = t, the handler of an event on another channel (a denied
\* card included) that checks the cooldown before t + D starts neither capture
\* nor notify; the event is in the status table all the same.
C34_shared_cooldown ==
    [][\A t \in Workers :
          ( /\ pc[t] = "handle"
            /\ pc'[t] # "handle"
            /\ \E n \in notify_log :
                  /\ Recorded(n)
                  /\ n.ch # t
                  /\ n.at <= now
                  /\ now < n.at + Cooldown )
          => /\ dispatch_log' = dispatch_log
             /\ pc'[t] = "poll"
             /\ sensor_status[t].event_count >= 1]_vars

\* C35: MFRC522_ToCard returns a status other than ERROR whenever the loop
\* has read the awaited interrupt bit, on whichever of its 2000 reads, the
\* last one included, and ErrorReg has none of the bits 0x1B set.
C35_flag_read_is_success ==
    ( /\ drv.pc = "tocard_done"
      /\ And(drv.n, WaitIRq(drv.command)) # 0
      /\ And(drv.errorReg, 27) = 0 )
    => drv.status # "ERROR"

\* The event counter and its timestamp agree in the entry s.
CountedIffStamped(s) == (s.last_event_timestamp # NoTime) <=> (s.event_count > 0)

\* C36: in every entry of the table, the initial ones and the ones an update
\* creates, last_event_timestamp is set exactly when event_count is above 0;
\* event_count never decreases; and an update with event_detected false
\* changes neither of the two fields.
C36_counter_and_timestamp ==
    /\ [](\A e \in DOMAIN sensor_status : CountedIffStamped(sensor_status[e]))
    /\ [][\A e \in DOMAIN sensor_status :
             /\ e \in DOMAIN sensor_status'
             /\ sensor_status'[e].event_count >= sensor_status[e].event_count
             /\ (pc["api"] = "upd_table" /\ ~upd["api"].event) =>
                   /\ sensor_status'[e].event_count = sensor_status[e].event_count
                   /\ sensor_status'[e].last_event_timestamp
                          = sensor_status[e].last_event_timestamp]_vars

\* An update without an event has just been written into an entry that had
\* counted events before, and into one that had none, at a later time than the
\* entry's last event.
C36_witness ==
    /\ pc["api"] = "idle"
    /\ \E e \in DOMAIN sensor_status :
          /\ sensor_status[e].event_count > 0
          /\ sensor_status[e].last_check > sensor_status[e].last_event_timestamp
    /\ \E e \in DOMAIN sensor_status :
          /\ "api" \in writers[e]
          /\ sensor_status[e].event_count = 0

\* POST /control has answered.
ControlAnswered == srv.pc = "responded" /\ srv.route = "control"

\* C31: POST /control answers 200 with a message naming the command for every
\* accepted command, the commands of the test (lock_door, unlock_window)
\* among them, and answers 400 with a detail for any other command, which is
\* then neither forwarded to the Raspberry Pi nor executed there.
C31_control_answers ==
    ControlAnswered =>
        IF srv.action \in valid_actions \cup TestAccepted
        THEN /\ srv.response.status = 200
             /\ srv.response.names = srv.action
        ELSE /\ srv.response.status = 400
             /\ srv.response.message # "none"
             /\ ~srv.forwarded
             /\ srv.executed = 0

\* C32: a POST /alert that was accepted (answered 201) has added one
\* manual_alert row to the log, its answer carries the message 'Alert
\* processed' and the id of that row, and the ids of the stored rows are
\* pairwise distinct.
C32_alert_logged ==
    /\ (srv.pc = "responded" /\ srv.route = "alert" /\ srv.response.status = 201) =>
          /\ srv.response.message = "Alert processed"
          /\ Len(srv.logs) >= 1
          /\ srv.logs[Len(srv.logs)].event_type = "manual_alert"
          /\ srv.logs[Len(srv.logs)].id = srv.response.log_id
    /\ \A i \in 1..Len(srv.logs) : \A j \in 1..Len(srv.logs) :
          i # j => srv.logs[i].id # srv.logs[j].id

\* C37: _make_request makes at most retry_count attempts and none after a
\* success; after each failed attempt but the last it has slept retry_delay
\* times the number of that attempt; when it raises, it has made retry_count
\* attempts and raises the error of the last; and every call returns or
\* raises in the end.
C37_bounded_retry ==
    /\ [](/\ Len(srv.attempts) <= retry_count
          /\ \A i \in 1..(Len(srv.attempts) - 1) : srv.attempts[i] # "ok"
          /\ \A i \in 1..Len(srv.waits) : srv.waits[i] = retry_delay * i
          /\ srv.request = "running" => Len(srv.waits) = Len(srv.attempts)
          /\ srv.request = "returned" =>
                /\ srv.attempts[Len(srv.attempts)] = "ok"
                /\ Len(srv.waits) = Len(srv.attempts) - 1
          /\ srv.request = "raised" =>
                /\ Len(srv.attempts) = retry_count
                /\ Len(srv.waits) = retry_count - 1
                /\ srv.error = srv.attempts[retry_count]
                /\ srv.error # "ok")
    /\ (srv.request = "running") ~> (srv.request \in {"returned", "raised"})

\* A call returns on its third attempt, after a timeout and an HTTP error
\* and the two sleeps.
C37_witness ==
    /\ srv.request = "returned"
    /\ srv.attempts = <<"timeout", "http_error", "ok">>
    /\ srv.waits = <<retry_delay, 2 * retry_delay>>

\* C38: for one execute_command call of the server, control_pi executes the
\* action at most once, whatever errors and timeouts the client sees.
C38_executed_once == srv.executed <= 1

\* C40: on a Raspberry Pi whose door-lock GPIO was set up without error, a
\* lock or unlock command returns success, and the door_lock entry of the
\* status table shows the state of the last one executed: locked true after
\* lock, locked false after unlock.
C40_lock_state_recorded ==
    pi.IS_RPI =>
        /\ (pi.pc = "replied" /\ pi.action \in {"lock", "unlock"} /\ pi.code = 200) =>
              pi.result = "success"
        /\ pi.last = "lock" => pi.door_lock = "true"
        /\ pi.last = "unlock" => pi.door_lock = "false"

\* C39: with Redis available, check_rate_limit admits at most
\* RATE_LIMIT_REQUESTS requests of one client key in any window of
\* RATE_LIMIT_WINDOW seconds, however they are spread over it.  The clock of
\* the model stays inside one window, so every admitted request counts.
C39_window_limit ==
    (rl.pc = "idle" /\ rl.now < RATE_LIMIT_WINDOW) =>
        rl.admitted <= RATE_LIMIT_REQUESTS
====
